---- MODULE Spec2Model ----
(***************************************************************************)
(* A model of lib/inspect.cpp: the enumeration of loaded files             *)
(* (get_loaded_files), the search for a debug image                        *)
(* (locate_debug_executable), the line-table walk and the inline walk of   *)
(* process_file / process_inlines, the address range index (add_range,     *)
(* find_line) and memory_map::build.                                       *)
(*                                                                         *)
(* Strings are sequences of one-character strings, so that find, rfind,    *)
(* substr and the lexicographic order of std::map<string, ...> are         *)
(* computed character by character.                                        *)
(***************************************************************************)
EXTENDS Integers, Sequences, FiniteSets, TLC

VARIABLES
  ranges,        \* memory_map::_ranges: the stored intervals, in key order
  files,         \* memory_map::_files: path -> set of line numbers
  calls,         \* history: the add_range calls made on the index directly
  scope,         \* the scope prefixes given to build / process_file
  load_address,  \* the load address of the file being processed
  rows,          \* history: the line-table rows walked so far in the unit
  emit_at,       \* history: for each row walked, the add_range call it made
  prev_filename, \* process_file's locals, as they stand between two rows
  prev_line,
  prev_address,
  die,           \* the debug-info node process_inlines visited last
  die_facts,     \* history: what that node was built from
  die_emits,     \* history: the add_range calls made for that node
  maps_table,    \* the lines of /proc/self/maps
  fopen_ok,      \* whether fopen of /proc/self/maps succeeds
  include_libs,  \* the argument of get_loaded_files
  loaded,        \* the map get_loaded_files returns, in key order
  glf_state,     \* "idle", "returned" or "crashed"
  disk,          \* the file system: path -> "absent", "plain" or "debug"
  image,         \* the sections of the module's own image
  loc_filename,  \* the argument of locate_debug_executable
  loc_primary,   \* history: the path opened as the module's own image
  loc_tried,     \* history: the fallback candidates opened, in order
  loc_image,     \* the path of the image returned, <<>> for an invalid one
  loc_state,     \* "idle", "returned" or "raised"
  load_error,    \* what loading a module's debug information raises
  build_state,   \* "idle", "running", "done" or "escaped"
  build_pos,     \* the position of build's loop in the enumeration
  processed      \* history: the modules handed to process_file

indexVars == <<ranges, files, calls>>

walkVars ==
  <<scope, load_address, rows, emit_at, prev_filename, prev_line, prev_address>>

inlineVars == <<die, die_facts, die_emits>>

mapsVars == <<maps_table, fopen_ok, include_libs, loaded, glf_state>>

locateVars ==
  <<disk, image, loc_filename, loc_primary, loc_tried, loc_image, loc_state>>

buildVars == <<load_error, build_state, build_pos, processed>>

vars == <<indexVars, walkVars, inlineVars, mapsVars, locateVars, buildVars>>

----------------------------------------------------------------------------
(* Bounds of the model *)

MaxAddr == 3
MaxCalls == 3
MaxRowAddr == 2
MaxRows == 3
LoadBase == 4
MaxNodes == 2
MaxMaps == 3

----------------------------------------------------------------------------
(* std::string operations *)

npos == -1

\* The characters used, in ASCII order.
Alphabet ==
  <<"-", ".", "/", "0", "1", "2", "3", "4", "5", "6", "7", "8", "9", ":",
    "[", "]", "a", "b", "c", "d", "e", "f", "g", "h", "i", "j", "k", "l", "m",
    "n", "o", "p", "q", "r", "s", "t", "u", "v", "w", "x", "y", "z">>

CharRank(c) == CHOOSE i \in 1..Len(Alphabet) : Alphabet[i] = c

\* operator< of std::string: lexicographic, a proper prefix is smaller.
RECURSIVE StrLess(_, _)
StrLess(a, b) ==
  IF b = <<>> THEN FALSE
  ELSE IF a = <<>> THEN TRUE
  ELSE IF Head(a) # Head(b) THEN CharRank(Head(a)) < CharRank(Head(b))
  ELSE StrLess(Tail(a), Tail(b))

\* t occurs in s at the 0-based position pos.
OccursAt(s, t, pos) ==
  /\ pos >= 0
  /\ pos + Len(t) <= Len(s)
  /\ \A i \in 1..Len(t) : s[pos + i] = t[i]

\* s.find(t): the first position of t in s, or npos.
Find(s, t) ==
  LET hits == {p \in 0..Len(s) : OccursAt(s, t, p)}
  IN  IF hits = {} THEN npos
      ELSE CHOOSE p \in hits : \A q \in hits : p <= q

\* s.rfind(t): the last position of t in s, or npos.
RFind(s, t) ==
  LET hits == {p \in 0..Len(s) : OccursAt(s, t, p)}
  IN  IF hits = {} THEN npos
      ELSE CHOOSE p \in hits : \A q \in hits : q <= p

\* s.find_first_of(c) and s.find_last_of(c) for one character c.
FindFirstOf(s, c) == Find(s, <<c>>)

FindLastOf(s, c) == RFind(s, <<c>>)

\* s.substr(pos, n) and s.substr(pos).
Substr(s, pos, n) ==
  SubSeq(s, pos + 1, IF pos + n > Len(s) THEN Len(s) ELSE pos + n)

SubstrFrom(s, pos) == SubSeq(s, pos + 1, Len(s))

Digits == {"0", "1", "2", "3", "4", "5", "6", "7", "8", "9"}

DigitVal(c) == CharRank(c) - CharRank("0")

\* stringstream(s) >> size_t: the leading run of decimal digits; when there
\* is none the extraction fails and stores 0.
RECURSIVE ParseDigits(_, _)
ParseDigits(s, acc) ==
  IF s = <<>> \/ Head(s) \notin Digits THEN acc
  ELSE ParseDigits(Tail(s), 10 * acc + DigitVal(Head(s)))

ParseSizeT(s) == ParseDigits(s, 0)

----------------------------------------------------------------------------
(* interval, file and line: declared in the headers of the library *)

\* interval(base, limit) is [base, limit); interval(p) is [p, p + 1).
Interval(base, limit) == [base |-> base, limit |-> limit]

UnitInterval(p) == Interval(p, p + 1)

\* interval + x shifts both ends.
Shift(r, x) == Interval(r.base + x, r.limit + x)

\* interval::operator<: a is below b when it ends at or before b's start, so
\* two intervals that overlap compare equivalent.
IntervalLess(a, b) == a.limit <= b.base

\* A line is identified by its file's path and its number.
NoLine == <<>>

Line(filename, line_no) == <<filename, line_no>>

\* memory_map::get_file followed by file::get_line: the file and the line are
\* created on first use and found again afterwards.
GetFileLine(fs, filename, line_no) ==
  IF filename \in DOMAIN fs
  THEN [fs EXCEPT ![filename] = @ \cup {line_no}]
  ELSE [p \in DOMAIN fs \cup {filename} |->
          IF p = filename THEN {line_no} ELSE fs[p]]

HasLine(fs, filename, line_no) ==
  filename \in DOMAIN fs /\ line_no \in fs[filename]

----------------------------------------------------------------------------
(* std::map<interval, shared_ptr<line>> *)

\* The first position whose key is not below k (Len + 1 when there is none).
LowerBound(m, k) ==
  LET notBelow == {i \in 1..Len(m) : ~IntervalLess(m[i].key, k)}
  IN  IF notBelow = {} THEN Len(m) + 1
      ELSE CHOOSE i \in notBelow : \A j \in notBelow : i <= j

\* map::find: the entry equivalent to k, or 0 for end().
MapFind(m, k) ==
  LET i == LowerBound(m, k)
  IN  IF i > Len(m) \/ IntervalLess(k, m[i].key) THEN 0 ELSE i

\* map::emplace turned into an assignment _ranges[range] = l, which replaces
\* the line of an equivalent key that is already there.
MapAssign(m, k, v) ==
  LET i == LowerBound(m, k)
  IN  IF i <= Len(m) /\ ~IntervalLess(k, m[i].key)
      THEN [m EXCEPT ![i].val = v]
      ELSE SubSeq(m, 1, i - 1) \o <<[key |-> k, val |-> v]>>
             \o SubSeq(m, i, Len(m))

\* map::emplace: inserts unless an equivalent key is already there.
MapEmplace(m, k, v) ==
  LET i == LowerBound(m, k)
  IN  IF i <= Len(m) /\ ~IntervalLess(k, m[i].key) THEN m
      ELSE SubSeq(m, 1, i - 1) \o <<[key |-> k, val |-> v]>>
             \o SubSeq(m, i, Len(m))

----------------------------------------------------------------------------
(* memory_map: the index.  An index value is [ranges, files]. *)

EmptyIndex == [ranges |-> <<>>, files |-> <<>>]

\* memory_map::add_range
add_range(idx, filename, line_no, range) ==
  [ranges |-> MapEmplace(idx.ranges, range, Line(filename, line_no)),
   files |-> GetFileLine(idx.files, filename, line_no)]

\* memory_map::find_line(uintptr_t)
find_line_addr(idx, addr) ==
  LET iter == MapFind(idx.ranges, UnitInterval(addr))
  IN  IF iter # 0 THEN idx.ranges[iter].val ELSE NoLine

\* The keys of files() in the order a std::map iterates them.
RECURSIVE SortedPaths(_)
SortedPaths(S) ==
  IF S = {} THEN <<>>
  ELSE LET least == CHOOSE p \in S : \A q \in S \ {p} : StrLess(p, q)
       IN  <<least>> \o SortedPaths(S \ {least})

\* The loop of find_line(const string&) over files(), from position i.
RECURSIVE FindLineLoop(_, _, _, _, _)
FindLineLoop(fs, order, i, filename, line_no) ==
  IF i > Len(order) THEN NoLine
  ELSE LET f == order[i]
           last_pos == RFind(f, filename)
       IN  IF /\ last_pos # npos
              /\ last_pos + Len(filename) = Len(f)
              /\ HasLine(fs, f, line_no)
           THEN Line(f, line_no)
           ELSE FindLineLoop(fs, order, i + 1, filename, line_no)

\* memory_map::find_line(const string&)
find_line_name(idx, name) ==
  LET colon_pos == FindFirstOf(name, ":")
  IN  IF colon_pos = npos THEN NoLine
      ELSE LET filename == Substr(name, 0, colon_pos)
               line_no_str == SubstrFrom(name, colon_pos + 1)
               line_no == ParseSizeT(line_no_str)
           IN  FindLineLoop(idx.files, SortedPaths(DOMAIN idx.files), 1,
                            filename, line_no)

TheIndex == [ranges |-> ranges, files |-> files]

----------------------------------------------------------------------------
(* The index on its own: add_range called with arbitrary arguments *)

FooCpp ==
  <<"/","s","r","c","/","p","r","o","j","e","c","t","/","f","o","o",".","c","p","p">>

BarCpp == <<"/","s","r","c","/","b","a","r",".","c","p","p">>

IndexFiles == {FooCpp, BarCpp}

IndexLines == {10}

Addrs == 0..MaxAddr

IndexEmpty ==
  /\ ranges = <<>>
  /\ files = <<>>
  /\ calls = <<>>

WalkIdle ==
  /\ scope = <<>>
  /\ load_address = 0
  /\ rows = <<>>
  /\ emit_at = <<>>
  /\ prev_filename = <<>>
  /\ prev_line = 0
  /\ prev_address = 0

InlineIdle ==
  /\ die = [valid |-> FALSE, tag |-> "none", attrs |-> <<>>, origin |-> <<>>,
            spec |-> <<>>]
  /\ die_facts = [decl |-> [place |-> "none", file |-> 0],
                  table |-> [valid |-> FALSE, files |-> <<>>], n |-> 0]
  /\ die_emits = <<>>

MapsIdle ==
  /\ maps_table = <<>>
  /\ fopen_ok = TRUE
  /\ include_libs = TRUE
  /\ loaded = <<>>
  /\ glf_state = "idle"

LocateIdle ==
  /\ disk = <<>>
  /\ image = [notes |-> <<>>, link_valid |-> FALSE, link_name |-> <<>>]
  /\ loc_filename = <<>>
  /\ loc_primary = <<>>
  /\ loc_tried = <<>>
  /\ loc_image = <<>>
  /\ loc_state = "idle"

BuildIdle ==
  /\ load_error = <<>>
  /\ build_state = "idle"
  /\ build_pos = 0
  /\ processed = <<>>

InitIndex ==
  /\ IndexEmpty
  /\ WalkIdle
  /\ InlineIdle
  /\ MapsIdle
  /\ LocateIdle
  /\ BuildIdle

\* One call of add_range, recorded in the history.
DoAddRange(filename, line_no, range) ==
  LET idx == add_range(TheIndex, filename, line_no, range)
  IN  /\ ranges' = idx.ranges
      /\ files' = idx.files
      /\ calls' = Append(calls,
                    [file |-> filename, line |-> line_no, range |-> range])

AddRange ==
  /\ Len(calls) < MaxCalls
  /\ \E filename \in IndexFiles, line_no \in IndexLines,
        low \in Addrs, high \in Addrs :
       /\ low <= high
       /\ DoAddRange(filename, line_no, Interval(low, high))
  /\ UNCHANGED <<walkVars, inlineVars, mapsVars, locateVars,
                 buildVars>>

NextIndex == AddRange

SpecIndex == InitIndex /\ [][NextIndex]_vars

----------------------------------------------------------------------------
(* Claims about the index *)

Covers(range, addr) == range.base <= addr /\ addr < range.limit

Overlap(a, b) == a.base < b.limit /\ b.base < a.limit

CallLine(c) == Line(c.file, c.line)

\* The i-th call was kept: it overlaps no earlier call that was kept.
RECURSIVE Kept(_)
Kept(i) ==
  \A j \in 1..(i - 1) : Kept(j) => ~Overlap(calls[j].range, calls[i].range)

Queries ==
  { <<"f","o","o",".","c","p","p",":","1","0">>,
    <<"o","o",".","c","p","p",":","1","0">>,
    <<"b","a","r",".","c","p","p",":","1","0">>,
    <<"f","o","o",".","c","p","p">>,
    <<"p","r","o","j","e","c","t","/","f","o","o",".","c","p","p",":","2","0">> }

QueryPath(q) == Substr(q, 0, FindFirstOf(q, ":"))

\* p ends f and starts at a separator boundary of f (or is all of f).
SeparatorSuffix(p, f) ==
  /\ Len(p) <= Len(f)
  /\ SubSeq(f, Len(f) - Len(p) + 1, Len(f)) = p
  /\ \/ Len(p) = Len(f)
     \/ f[Len(f) - Len(p)] = "/"
     \/ (p # <<>> /\ p[1] = "/")

\* C2: a name resolves to a line of a file only when its path part is a
\* suffix of the file's path that starts at a separator boundary, and a name
\* without a colon resolves to nothing.
C2_SuffixAtSeparatorBoundary ==
  \A q \in Queries :
    LET r == find_line_name(TheIndex, q)
    IN  /\ FindFirstOf(q, ":") = npos => r = NoLine
        /\ r # NoLine => SeparatorSuffix(QueryPath(q), r[1])

----------------------------------------------------------------------------
(* boost::filesystem::path and in_scope *)

\* The components of a path: the runs of characters between separators.
RECURSIVE SplitPath(_, _)
SplitPath(s, cur) ==
  IF s = <<>> THEN <<cur>>
  ELSE IF Head(s) = "/" THEN <<cur>> \o SplitPath(Tail(s), <<>>)
  ELSE SplitPath(Tail(s), Append(cur, Head(s)))

Dot == <<".">>

DotDot == <<".", ".">>

\* One pass over the components: empty ones and "." are dropped, ".." removes
\* the component before it.
RECURSIVE Clean(_, _)
Clean(comps, kept) ==
  IF comps = <<>> THEN kept
  ELSE LET c == Head(comps)
       IN  IF c = <<>> \/ c = Dot THEN Clean(Tail(comps), kept)
           ELSE IF c = DotDot /\ kept # <<>> /\ kept[Len(kept)] # DotDot
                THEN Clean(Tail(comps), SubSeq(kept, 1, Len(kept) - 1))
           ELSE Clean(Tail(comps), Append(kept, c))

RECURSIVE JoinPath(_)
JoinPath(comps) ==
  IF comps = <<>> THEN <<>>
  ELSE IF Len(comps) = 1 THEN comps[1]
  ELSE comps[1] \o <<"/">> \o JoinPath(Tail(comps))

\* path(p).normalize().string()
normalize(p) ==
  LET body == JoinPath(Clean(SplitPath(p, <<>>), <<>>))
  IN  IF p # <<>> /\ p[1] = "/" THEN <<"/">> \o body ELSE body

\* in_scope with the test find(s) == 0 written find(s) != npos.
in_scope_anywhere(file, sc) ==
  \E i \in 1..Len(sc) : Find(normalize(file), sc[i]) # npos

\* in_scope
in_scope(file, sc) ==
  \E i \in 1..Len(sc) : Find(normalize(file), sc[i]) = 0

----------------------------------------------------------------------------
(* process_file: the walk of one compilation unit's line table *)

NoCall == <<>>

Call(filename, line_no, range) ==
  [file |-> filename, line |-> line_no, range |-> range]

\* The body of the loop over the line table with the reset of prev_address at
\* an end-of-sequence row left out.
LineStepNoReset(st, line_info, sc, load) ==
  LET emits == st.prev_address # 0 /\ in_scope(st.prev_filename, sc)
      range == Shift(Interval(st.prev_address, line_info.address), load)
  IN  [idx |-> IF emits
               THEN add_range(st.idx, st.prev_filename, st.prev_line, range)
               ELSE st.idx,
       emitted |-> IF emits
                   THEN Call(st.prev_filename, st.prev_line, range)
                   ELSE NoCall,
       prev_filename |-> normalize(line_info.file),
       prev_line |-> line_info.line,
       prev_address |-> line_info.address]

\* The body of the loop over the line table, for the row line_info: st holds
\* the locals and the index before the row, the result holds them after it
\* and the add_range call the row made.
LineStep(st, line_info, sc, load) ==
  LET emits == st.prev_address # 0 /\ in_scope(st.prev_filename, sc)
      range == Shift(Interval(st.prev_address, line_info.address), load)
  IN  [idx |-> IF emits
               THEN add_range(st.idx, st.prev_filename, st.prev_line, range)
               ELSE st.idx,
       emitted |-> IF emits
                   THEN Call(st.prev_filename, st.prev_line, range)
                   ELSE NoCall,
       prev_filename |-> IF line_info.end_sequence THEN st.prev_filename
                         ELSE normalize(line_info.file),
       prev_line |-> IF line_info.end_sequence THEN st.prev_line
                     ELSE line_info.line,
       prev_address |-> IF line_info.end_sequence THEN 0
                        ELSE line_info.address]

\* The source files named by the rows, as the line table spells them.
RowFiles ==
  { <<"/","s","x","/",".","/","a">>,
    <<"/","s","/",".",".","/","l","/","s">> }

RowLines == {1, 2}

Scopes ==
  { << <<"/","s">> >>,
    << <<"/","q">>, <<"/","l">> >> }

Rows ==
  [address : 0..MaxRowAddr, file : RowFiles, line : RowLines,
   end_sequence : BOOLEAN]

\* The state at the top of a compilation unit: prev_line is not initialised
\* by the code and is not read before a row has set it.
InitWalk ==
  /\ IndexEmpty
  /\ scope \in Scopes
  /\ load_address = LoadBase
  /\ rows = <<>>
  /\ emit_at = <<>>
  /\ prev_filename = <<>>
  /\ prev_line = 0
  /\ prev_address = 0
  /\ InlineIdle
  /\ MapsIdle
  /\ LocateIdle
  /\ BuildIdle

\* One iteration of the loop: the next row of the table. Within a sequence
\* the addresses of a line table do not decrease.
WalkRow ==
  /\ Len(rows) < MaxRows
  /\ \E line_info \in Rows :
       /\ IF rows = <<>> THEN TRUE
          ELSE IF rows[Len(rows)].end_sequence THEN TRUE
          ELSE rows[Len(rows)].address <= line_info.address
       /\ LET st == [idx |-> TheIndex, emitted |-> NoCall,
                     prev_filename |-> prev_filename,
                     prev_line |-> prev_line,
                     prev_address |-> prev_address]
              nx == LineStep(st, line_info, scope, load_address)
          IN  /\ ranges' = nx.idx.ranges
              /\ files' = nx.idx.files
              /\ emit_at' = Append(emit_at, nx.emitted)
              /\ rows' = Append(rows, line_info)
              /\ prev_filename' = nx.prev_filename
              /\ prev_line' = nx.prev_line
              /\ prev_address' = nx.prev_address
  /\ UNCHANGED <<calls, scope, load_address, inlineVars, mapsVars, locateVars,
                 buildVars>>

NextWalk == WalkRow

SpecWalk == InitWalk /\ [][NextWalk]_vars

----------------------------------------------------------------------------
(* Claims about the line-table walk *)

\* p starts with the prefix s.
StartsWith(p, s) == Len(s) <= Len(p) /\ SubSeq(p, 1, Len(s)) = s

HasScopePrefix(p) == \E i \in 1..Len(scope) : StartsWith(p, scope[i])

\* The interval from row i - 1 to row i, attributed to row i - 1.
IntervalOfPrev(i) ==
  Call(normalize(rows[i - 1].file), rows[i - 1].line,
       Interval(rows[i - 1].address + load_address,
                rows[i].address + load_address))

\* C4: every interval the walk emits is attributed to the normalized file of
\* the previous row, and that path starts with a scope prefix.
C4_EmittedFileInScope ==
  \A i \in 1..Len(rows) :
    emit_at[i] # NoCall =>
      /\ i > 1
      /\ emit_at[i].file = normalize(rows[i - 1].file)
      /\ HasScopePrefix(emit_at[i].file)

\* A row follows a row whose file is spelled with a scope prefix but lies
\* outside every scope once normalized, and emits nothing, while another row
\* of the unit has emitted.
C4_Witness ==
  \E i, j \in 2..Len(rows) :
    /\ emit_at[i] # NoCall
    /\ emit_at[j] = NoCall
    /\ ~rows[j - 1].end_sequence
    /\ rows[j - 1].address # 0
    /\ HasScopePrefix(rows[j - 1].file)
    /\ ~HasScopePrefix(normalize(rows[j - 1].file))

\* C9 as stated: an end-of-sequence row emits nothing, and neither does the
\* row after it.
C9_EndSequenceEmitsNothing ==
  \A i \in 1..Len(rows) :
    rows[i].end_sequence =>
      /\ emit_at[i] = NoCall
      /\ i < Len(rows) => emit_at[i + 1] = NoCall

\* The previous-row state is set when row i is walked.
PrevSet(i) == i > 1 /\ ~rows[i - 1].end_sequence /\ rows[i - 1].address # 0

\* C9 amended: an end-of-sequence row emits like any other row (the interval
\* that closes the previous row, when the previous-row state is set and that
\* row's file is in scope) and then clears the previous-row state, so the row
\* after it emits nothing.
C9_EndSequenceClosesAndResets ==
  \A i \in 1..Len(rows) :
    rows[i].end_sequence =>
      /\ emit_at[i] =
           IF PrevSet(i) /\ HasScopePrefix(normalize(rows[i - 1].file))
           THEN IntervalOfPrev(i) ELSE NoCall
      /\ i < Len(rows) => emit_at[i + 1] = NoCall
      /\ i = Len(rows) => prev_address = 0

\* An end-of-sequence row has closed the previous row's interval and the row
\* after it has emitted nothing.
C9_Witness ==
  \E i \in 2..Len(rows) :
    /\ rows[i].end_sequence
    /\ emit_at[i] # NoCall
    /\ i < Len(rows)
    /\ emit_at[i + 1] = NoCall

\* C10: every row that follows, in the same sequence, a row whose file is in
\* scope emits the interval from that row to itself, whatever that row's
\* address is.
C10_EveryConsecutivePairEmits ==
  \A i \in 2..Len(rows) :
    (~rows[i - 1].end_sequence
       /\ HasScopePrefix(normalize(rows[i - 1].file)))
      => emit_at[i] = IntervalOfPrev(i)

----------------------------------------------------------------------------
(* process_inlines: one node of the debug-info tree *)

\* A node is [valid, tag, attrs, origin, spec]: attrs maps the names of the
\* attributes the node has to their values, origin and spec are the nodes its
\* abstract_origin and specification attributes refer to (a sequence of one
\* node, or NoDie when it has no such attribute). A value is [valid, v].
NoDie == <<>>

NoValue == [valid |-> FALSE]

Value(x) == [valid |-> TRUE, v |-> x]

Die(tag, attrs, origin, spec) ==
  [valid |-> TRUE, tag |-> tag, attrs |-> attrs, origin |-> origin,
   spec |-> spec]

InvalidDie ==
  [valid |-> FALSE, tag |-> "none", attrs |-> <<>>, origin |-> NoDie,
   spec |-> NoDie]

Has(d, attr) == attr \in DOMAIN d.attrs

\* find_attribute
RECURSIVE find_attribute(_, _)
find_attribute(d, attr) ==
  IF ~d.valid THEN NoValue
  ELSE IF Has(d, attr) THEN Value(d.attrs[attr])
  ELSE LET viaOrigin == IF d.origin # NoDie
                        THEN find_attribute(d.origin[1], attr) ELSE NoValue
       IN  IF viaOrigin.valid THEN viaOrigin
           ELSE IF d.spec # NoDie THEN find_attribute(d.spec[1], attr)
           ELSE NoValue

\* The address a low_pc or high_pc value is read as: as_address, as_uconstant
\* or as_sconstant by its type; for any other type the local is left
\* uninitialised, and its value is whatever was there.
ReadPc(val, garbage) ==
  IF val.type \in {"address", "uconstant", "sconstant"} THEN val.v
  ELSE garbage

\* The loop over a range list.
RECURSIVE AddRanges(_, _, _, _, _)
AddRanges(acc, rl, call_file, call_line, load) ==
  IF rl = <<>> THEN acc
  ELSE LET range == Shift(Interval(rl[1].low, rl[1].high), load)
       IN  AddRanges(
             [idx |-> add_range(acc.idx, call_file, call_line, range),
              emitted |-> Append(acc.emitted,
                                 Call(call_file, call_line, range))],
             Tail(rl), call_file, call_line, load)

\* The files of the node, as process_inlines resolves them.
DeclFile(d, table) ==
  LET decl_file_val == find_attribute(d, "decl_file")
  IN  IF decl_file_val.valid /\ table.valid
      THEN table.files[decl_file_val.v] ELSE <<>>

CallFile(d, table) ==
  IF Has(d, "call_file") /\ table.valid
  THEN table.files[d.attrs["call_file"]] ELSE <<>>

CallLineOf(d) == IF Has(d, "call_line") THEN d.attrs["call_line"] ELSE 0

\* The entries process_inlines adds for a node whose files pass the test.
EmitInline(d, call_file, call_line, load, idx, g_low, g_high) ==
  LET ranges_val == find_attribute(d, "ranges")
      low_pc_val == find_attribute(d, "low_pc")
      high_pc_val == find_attribute(d, "high_pc")
  IN  IF ranges_val.valid
      THEN AddRanges([idx |-> idx, emitted |-> <<>>], ranges_val.v,
                     call_file, call_line, load)
      ELSE IF low_pc_val.valid /\ high_pc_val.valid
      THEN LET range == Shift(Interval(ReadPc(low_pc_val.v, g_low),
                                       ReadPc(high_pc_val.v, g_high)), load)
           IN  [idx |-> add_range(idx, call_file, call_line, range),
                emitted |-> <<Call(call_file, call_line, range)>>]
      ELSE [idx |-> idx, emitted |-> <<>>]

\* process_inlines without the test of the declaration file.
ProcessDieCallOnly(d, table, sc, load, idx, g_low, g_high) ==
  IF ~d.valid \/ d.tag # "inlined_subroutine"
  THEN [idx |-> idx, emitted |-> <<>>]
  ELSE LET decl_file == DeclFile(d, table)
           call_file == CallFile(d, table)
       IN  IF Len(decl_file) > 0 /\ Len(call_file) > 0
              /\ in_scope(call_file, sc)
           THEN EmitInline(d, call_file, CallLineOf(d), load, idx,
                           g_low, g_high)
           ELSE [idx |-> idx, emitted |-> <<>>]

\* process_inlines for the node d itself (its children are visited by
\* further calls): the index after it and the add_range calls it made.
ProcessDie(d, table, sc, load, idx, g_low, g_high) ==
  IF ~d.valid \/ d.tag # "inlined_subroutine"
  THEN [idx |-> idx, emitted |-> <<>>]
  ELSE LET decl_file == DeclFile(d, table)
           call_file == CallFile(d, table)
       IN  IF Len(decl_file) > 0 /\ Len(call_file) > 0
              /\ ~in_scope(decl_file, sc) /\ in_scope(call_file, sc)
           THEN EmitInline(d, call_file, CallLineOf(d), load, idx,
                           g_low, g_high)
           ELSE [idx |-> idx, emitted |-> <<>>]

\* The files of the unit's line table, by file number.
TableFiles ==
  << <<"/","s","x","/",".","/","a">>,
     <<"/","s","/",".",".","/","l","/","s">> >>

Tables == [valid : BOOLEAN, files : {TableFiles}]

\* The attributes that give a node its addresses, each with the values its
\* uninitialised locals may hold (they are read for a value of type block).
PcChoices ==
  { [attrs |-> <<>>, g_low |-> 0, g_high |-> 0],
    [attrs |-> "ranges" :> <<[low |-> 1, high |-> 2], [low |-> 2, high |-> 3]>>,
     g_low |-> 0, g_high |-> 0],
    [attrs |-> "low_pc" :> [type |-> "address", v |-> 1],
     g_low |-> 0, g_high |-> 0],
    [attrs |-> ("low_pc" :> [type |-> "address", v |-> 1])
                 @@ ("high_pc" :> [type |-> "address", v |-> 3]),
     g_low |-> 0, g_high |-> 0],
    [attrs |-> ("low_pc" :> [type |-> "uconstant", v |-> 1])
                 @@ ("high_pc" :> [type |-> "sconstant", v |-> 3]),
     g_low |-> 0, g_high |-> 0] }
  \cup { [attrs |-> ("low_pc" :> [type |-> "block", v |-> 1])
                      @@ ("high_pc" :> [type |-> "address", v |-> 3]),
           g_low |-> g, g_high |-> 0] : g \in {0, 2} }

CallAttrs ==
  { <<>> } \cup { "call_file" :> 1 }
  \cup { ("call_file" :> f) @@ ("call_line" :> 7) : f \in 1..Len(TableFiles) }

\* Where the declaration file is found: nowhere, on the node, on its
\* abstract origin, on its specification, or on the specification of its
\* abstract origin.
DeclPlaces == {"self", "origin", "spec", "origin_spec"}

DeclChoices ==
  { [place |-> "none", file |-> 0] }
  \cup [place : DeclPlaces, file : 1..Len(TableFiles)]

Leaf(attrs) == Die("subprogram", attrs, NoDie, NoDie)

BuildDie(tag, decl, own) ==
  LET da == "decl_file" :> decl.file
  IN  CASE decl.place = "none" -> Die(tag, own, NoDie, NoDie)
        [] decl.place = "self" -> Die(tag, da @@ own, NoDie, NoDie)
        [] decl.place = "origin" -> Die(tag, own, <<Leaf(da)>>, NoDie)
        [] decl.place = "spec" -> Die(tag, own, NoDie, <<Leaf(da)>>)
        [] decl.place = "origin_spec" ->
             Die(tag, own, <<Die("subprogram", <<>>, NoDie, <<Leaf(da)>>)>>,
                 NoDie)

\* The nodes visited: every inlined subroutine over a valid line table, and
\* some nodes of another tag or over a line table that is not valid.
DieChoices ==
  [tag : {"inlined_subroutine"}, decl : DeclChoices, ca : CallAttrs,
   pc : PcChoices, table : {[valid |-> TRUE, files |-> TableFiles]}]
  \cup
  [tag : {"subprogram", "lexical_block"},
   decl : {d \in DeclChoices : d.place \in {"none", "self"}},
   ca : {a \in CallAttrs : "call_line" \in DOMAIN a},
   pc : {p \in PcChoices : "ranges" \in DOMAIN p.attrs},
   table : {[valid |-> TRUE, files |-> TableFiles]}]
  \cup
  [tag : {"inlined_subroutine"},
   decl : {d \in DeclChoices : d.place \in {"self", "origin"}},
   ca : {a \in CallAttrs : "call_line" \in DOMAIN a},
   pc : {p \in PcChoices : "ranges" \in DOMAIN p.attrs},
   table : {[valid |-> FALSE, files |-> TableFiles]}]

InitInline ==
  /\ IndexEmpty
  /\ scope \in Scopes
  /\ load_address = LoadBase
  /\ rows = <<>>
  /\ emit_at = <<>>
  /\ prev_filename = <<>>
  /\ prev_line = 0
  /\ prev_address = 0
  /\ InlineIdle
  /\ MapsIdle
  /\ LocateIdle
  /\ BuildIdle

\* process_inlines reaches a node of the tree.
VisitDie ==
  /\ die_facts.n < MaxNodes
  /\ \E c \in DieChoices :
       LET d == BuildDie(c.tag, c.decl, c.ca @@ c.pc.attrs)
           decl == c.decl
           table == c.table
           r == ProcessDie(d, table, scope, load_address, TheIndex,
                           c.pc.g_low, c.pc.g_high)
       IN  /\ ranges' = r.idx.ranges
           /\ files' = r.idx.files
           /\ die' = d
           /\ die_facts' = [decl |-> decl, table |-> table,
                            n |-> die_facts.n + 1]
           /\ die_emits' = r.emitted
  /\ UNCHANGED <<calls, walkVars, mapsVars, locateVars,
                 buildVars>>

\* process_inlines is handed a node that is not valid.
VisitInvalidDie ==
  /\ die_facts.n < MaxNodes
  /\ \E table \in Tables :
       LET r == ProcessDie(InvalidDie, table, scope, load_address, TheIndex,
                           0, 0)
       IN  /\ ranges' = r.idx.ranges
           /\ files' = r.idx.files
           /\ die' = InvalidDie
           /\ die_facts' = [decl |-> [place |-> "none", file |-> 0],
                            table |-> table, n |-> die_facts.n + 1]
           /\ die_emits' = r.emitted
  /\ UNCHANGED <<calls, walkVars, mapsVars, locateVars,
                 buildVars>>

NextInline == VisitDie \/ VisitInvalidDie

SpecInline == InitInline /\ [][NextInline]_vars

----------------------------------------------------------------------------
(* Claims about process_inlines *)

\* The declaration and call files of the node visited last, from what the
\* node was built from (<<>>: unknown).
FactDeclFile ==
  IF die_facts.decl.place # "none" /\ die_facts.table.valid
  THEN die_facts.table.files[die_facts.decl.file] ELSE <<>>

FactCallFile ==
  IF "call_file" \in DOMAIN die.attrs /\ die_facts.table.valid
  THEN die_facts.table.files[die.attrs["call_file"]] ELSE <<>>

\* C5: a node emits only when it is an inlined subroutine whose call file
\* and declaration file are both known, the call file in scope and the
\* declaration file not; every entry it emits goes to (call file, call line).
C5_InlineOnlyFromScopeIntoOutside ==
  die_emits # <<>> =>
    /\ die.tag = "inlined_subroutine"
    /\ FactDeclFile # <<>>
    /\ FactCallFile # <<>>
    /\ HasScopePrefix(normalize(FactCallFile))
    /\ ~HasScopePrefix(normalize(FactDeclFile))
    /\ \A i \in 1..Len(die_emits) :
         /\ die_emits[i].file = FactCallFile
         /\ die_emits[i].line =
              (IF "call_line" \in DOMAIN die.attrs
               THEN die.attrs["call_line"] ELSE 0)

\* An inlined node whose declaration file, found through its abstract
\* origin, is out of scope has emitted; entries are in the index.
C5_Witness ==
  /\ die_emits # <<>>
  /\ die_facts.decl.place = "origin"
  /\ ranges # <<>>

\* An inlined node called and declared in the same in-scope file has emitted
\* nothing.
C5_WitnessSameFile ==
  /\ die.tag = "inlined_subroutine"
  /\ FactDeclFile # <<>>
  /\ FactDeclFile = FactCallFile
  /\ HasScopePrefix(normalize(FactCallFile))
  /\ die_emits = <<>>

----------------------------------------------------------------------------
(* get_loaded_files *)

\* result[path] = base on a std::map<string, uintptr_t> written so that a
\* path already present keeps its base.
MapPutIfAbsent(result, path, base) ==
  IF \E i \in 1..Len(result) : result[i].path = path THEN result
  ELSE LET before == SelectSeq(result, LAMBDA e : StrLess(e.path, path))
           after == SelectSeq(result, LAMBDA e : StrLess(path, e.path))
       IN  before \o <<[path |-> path, base |-> base]>> \o after

\* result[path] = base on a std::map<string, uintptr_t>, kept in key order.
MapPut(result, path, base) ==
  LET before == SelectSeq(result, LAMBDA e : StrLess(e.path, path))
      after == SelectSeq(result, LAMBDA e : StrLess(path, e.path))
  IN  before \o <<[path |-> path, base |-> base]>> \o after

\* The do-while loop, from the line at pos. A line is [base, perms_x, offset,
\* path]; a line without a path (path = <<>>) leaves %s to read the first
\* field of the line after it, so that the read after that one does not
\* return 8 (aligned = FALSE); at the last line it returns 7 itself.
RECURSIVE ScanMaps(_, _, _, _, _)
ScanMaps(table, pos, aligned, result, libs) ==
  IF ~libs /\ Len(result) = 1 THEN result
  ELSE IF pos > Len(table) \/ ~aligned THEN result
  ELSE LET row == table[pos]
       IN  IF row.path = <<>>
           THEN IF pos = Len(table) THEN result
                ELSE ScanMaps(table, pos + 1, FALSE, result, libs)
           ELSE ScanMaps(table, pos + 1, TRUE,
                  IF row.offset = 0 /\ row.perms_x /\ row.path[1] = "/"
                  THEN MapPut(result, row.path, row.base) ELSE result,
                  libs)

BinApp == <<"/","b","i","n","/","a","p","p">>

LibC == <<"/","l","i","b","/","c",".","s","o">>

LibM == <<"/","l","i","b","/","m",".","s","o">>

Heap == <<"[","h","e","a","p","]">>

MapPaths == {LibC, BinApp, Heap, <<>>}

\* The tables: line i is mapped at base i.
MapRows(i) ==
  [base : {i}, perms_x : BOOLEAN, offset : {0, 1}, path : MapPaths]

MapsTables ==
  UNION { {t \in [1..n -> UNION {MapRows(i) : i \in 1..n}] :
             \A i \in 1..n : t[i].base = i} : n \in 0..MaxMaps }

InitMaps ==
  /\ IndexEmpty
  /\ WalkIdle
  /\ InlineIdle
  /\ maps_table \in MapsTables
  /\ fopen_ok \in BOOLEAN
  /\ include_libs \in BOOLEAN
  /\ loaded = <<>>
  /\ glf_state = "idle"
  /\ LocateIdle
  /\ BuildIdle

\* get_loaded_files when /proc/self/maps opens.
GetLoadedFiles ==
  /\ glf_state = "idle"
  /\ fopen_ok
  /\ loaded' = ScanMaps(maps_table, 1, TRUE, <<>>, include_libs)
  /\ glf_state' = "returned"
  /\ UNCHANGED <<indexVars, walkVars, inlineVars, maps_table, fopen_ok,
                 include_libs, locateVars,
                 buildVars>>

\* get_loaded_files when fopen returns NULL: fscanf and fclose are called on
\* the null stream, which is undefined; the call crashes, or the reads fail
\* and the empty map is returned.
GetLoadedFilesNullStream ==
  /\ glf_state = "idle"
  /\ ~fopen_ok
  /\ loaded' = <<>>
  /\ \/ glf_state' = "crashed"
     \/ glf_state' = "returned"
  /\ UNCHANGED <<indexVars, walkVars, inlineVars, maps_table, fopen_ok,
                 include_libs, locateVars,
                 buildVars>>

NextMaps == GetLoadedFiles \/ GetLoadedFilesNullStream

SpecMaps == InitMaps /\ [][NextMaps]_vars

----------------------------------------------------------------------------
(* Claims about get_loaded_files *)

IsCandidate(row) ==
  row.path # <<>> /\ row.offset = 0 /\ row.perms_x /\ Head(row.path) = "/"

\* The lines the scan parses: those before the first line without a path.
ParsedLines ==
  {i \in 1..Len(maps_table) : \A j \in 1..i : maps_table[j].path # <<>>}

\* The candidate lines the scan reaches: the parsed candidates, and only the
\* first of them when libraries are not included.
ReachedCandidates ==
  LET cands == {i \in ParsedLines : IsCandidate(maps_table[i])}
  IN  IF include_libs THEN cands
      ELSE {i \in cands : \A j \in cands : i <= j}

FirstLineOf(p) ==
  CHOOSE i \in ReachedCandidates :
    /\ maps_table[i].path = p
    /\ \A j \in ReachedCandidates : maps_table[j].path = p => i <= j

LastLineOf(p) ==
  CHOOSE i \in ReachedCandidates :
    /\ maps_table[i].path = p
    /\ \A j \in ReachedCandidates : maps_table[j].path = p => j <= i

OncePerPath ==
  /\ {loaded[i].path : i \in 1..Len(loaded)}
       = {maps_table[i].path : i \in ReachedCandidates}
  /\ \A i, j \in 1..Len(loaded) : i # j => loaded[i].path # loaded[j].path

\* C6 as stated: each path once, in the order of first occurrence, with the
\* base of its first candidate line.
C6_FirstOccurrenceOrderAndBase ==
  (glf_state = "returned" /\ fopen_ok) =>
    /\ OncePerPath
    /\ \A i, j \in 1..Len(loaded) :
         i < j => FirstLineOf(loaded[i].path) < FirstLineOf(loaded[j].path)
    /\ \A i \in 1..Len(loaded) :
         loaded[i].base = maps_table[FirstLineOf(loaded[i].path)].base

\* C6 amended: each path once, in ascending order of the path strings, with
\* the base of the last candidate line read for it.
C6_PathOrderAndLastBase ==
  (glf_state = "returned" /\ fopen_ok) =>
    /\ OncePerPath
    /\ \A i, j \in 1..Len(loaded) :
         i < j => StrLess(loaded[i].path, loaded[j].path)
    /\ \A i \in 1..Len(loaded) :
         loaded[i].base = maps_table[LastLineOf(loaded[i].path)].base

\* Two paths were returned, the one met first in the table second, and one
\* of them has two candidate lines.
C6_Witness ==
  /\ glf_state = "returned"
  /\ fopen_ok
  /\ Len(loaded) = 2
  /\ FirstLineOf(loaded[2].path) < FirstLineOf(loaded[1].path)
  /\ \E i \in 1..2 : FirstLineOf(loaded[i].path) # LastLineOf(loaded[i].path)

\* C7: when the table cannot be opened, get_loaded_files returns an empty
\* result and does not crash.
C7_UnopenableTableGivesEmptyResult ==
  (~fopen_ok /\ glf_state # "idle") =>
    (glf_state = "returned" /\ loaded = <<>>)

----------------------------------------------------------------------------
(* locate_debug_executable *)

NT_GNU_BUILD_ID == 3

HexDigits == <<"0","1","2","3","4","5","6","7","8","9","a","b","c","d","e","f">>

\* operator<< of an unsigned value under ios::hex
RECURSIVE ToHex(_)
ToHex(n) ==
  IF n < 16 THEN <<HexDigits[n + 1]>>
  ELSE ToHex(n \div 16) \o <<HexDigits[(n % 16) + 1]>>

\* One byte written with width(2) and fill('0').
HexByte(b) ==
  LET h == ToHex(b) IN IF Len(h) < 2 THEN <<"0">> \o h ELSE h

RECURSIVE HexBytes(_)
HexBytes(desc) ==
  IF desc = <<>> THEN <<>> ELSE HexByte(desc[1]) \o HexBytes(Tail(desc))

\* find_build_id: notes are the note headers in the order the loops meet
\* them, each [n_type, desc].
RECURSIVE find_build_id(_)
find_build_id(notes) ==
  IF notes = <<>> THEN <<>>
  ELSE IF notes[1].n_type = NT_GNU_BUILD_ID THEN HexBytes(notes[1].desc)
  ELSE find_build_id(Tail(notes))

\* What open and exists see at a path.
StatusOf(d, p) == IF p \in DOMAIN d THEN d[p] ELSE "absent"

\* split(search_dirs, path_env, is_any_of(":"))
RECURSIVE SplitAny(_, _, _)
SplitAny(s, c, cur) ==
  IF s = <<>> THEN <<cur>>
  ELSE IF Head(s) = c THEN <<cur>> \o SplitAny(Tail(s), c, <<>>)
  ELSE SplitAny(Tail(s), c, Append(cur, Head(s)))

\* path(a) / b
PathJoin(a, b) ==
  IF a # <<>> /\ a[Len(a)] = "/" THEN a \o b ELSE a \o <<"/">> \o b

\* The environment of the process.
Cwd == <<"/","b">>

PathEnv == <<"/","x",":","/","b">>

\* The loop of get_full_path over the directories of PATH.
RECURSIVE SearchDirs(_, _, _, _)
SearchDirs(search_dirs, i, name, d) ==
  IF i > Len(search_dirs) THEN <<>>
  ELSE LET p == PathJoin(search_dirs[i], name)
       IN  IF StatusOf(d, p) # "absent" THEN p
           ELSE SearchDirs(search_dirs, i + 1, name, d)

\* get_full_path: [raised, path]; canonical raises a filesystem_error for a
\* path that does not exist.
get_full_path(name, d) ==
  IF name[1] = "/" THEN [raised |-> FALSE, path |-> name]
  ELSE IF Find(name, <<"/">>) # npos
  THEN LET p == normalize(PathJoin(Cwd, name))
       IN  IF StatusOf(d, p) = "absent" THEN [raised |-> TRUE, path |-> <<>>]
           ELSE [raised |-> FALSE, path |-> p]
  ELSE [raised |-> FALSE,
        path |-> SearchDirs(SplitAny(PathEnv, ":", <<>>), 1, name, d)]

DebugRoot == <<"/","u","s","r","/","l","i","b","/","d","e","b","u","g">>

BuildIdRoot == <<"/","u","s","r","/","l","i","b","/","d","e","b","u","g","/",".","b","u","i","l","d","-","i","d">>

DotDebug == <<".","d","e","b","u","g">>

\* The candidates with the build-id path pushed after the debug-link paths.
SearchPathsLinkFirst(full_path, img) ==
  LET directory == Substr(full_path, 0, FindLastOf(full_path, "/"))
      build_id == find_build_id(img.notes)
  IN  (IF img.link_valid
       THEN << directory \o <<"/">> \o img.link_name,
               directory \o <<"/">> \o DotDebug \o <<"/">> \o img.link_name,
               DebugRoot \o directory \o <<"/">> \o img.link_name >>
       ELSE <<>>)
      \o
      (IF Len(build_id) > 0
       THEN << PathJoin(PathJoin(BuildIdRoot, Substr(build_id, 0, 2)),
                        SubstrFrom(build_id, 2) \o DotDebug) >>
       ELSE <<>>)

\* The vector search_paths that locate_debug_executable builds.
SearchPaths(full_path, img) ==
  LET directory == Substr(full_path, 0, FindLastOf(full_path, "/"))
      build_id == find_build_id(img.notes)
  IN  (IF Len(build_id) > 0
       THEN << PathJoin(PathJoin(BuildIdRoot, Substr(build_id, 0, 2)),
                        SubstrFrom(build_id, 2) \o DotDebug) >>
       ELSE <<>>)
      \o
      (IF img.link_valid
       THEN << directory \o <<"/">> \o img.link_name,
               directory \o <<"/">> \o DotDebug \o <<"/">> \o img.link_name,
               DebugRoot \o directory \o <<"/">> \o img.link_name >>
       ELSE <<>>)

\* The loop over search_paths from position i; tried collects the paths
\* handed to open.
RECURSIVE TryPaths(_, _, _, _)
TryPaths(search_paths, i, tried, d) ==
  IF i > Len(search_paths) THEN [tried |-> tried, image |-> <<>>]
  ELSE LET p == search_paths[i]
       IN  IF StatusOf(d, p) = "debug"
           THEN [tried |-> Append(tried, p), image |-> p]
           ELSE TryPaths(search_paths, i + 1, Append(tried, p), d)

\* locate_debug_executable: img holds the sections of the module's own image.
locate_debug_executable(name, d, img) ==
  LET full == get_full_path(name, d)
      none == [raised |-> FALSE, primary |-> <<>>, tried |-> <<>>,
               image |-> <<>>]
  IN  IF full.raised THEN [none EXCEPT !.raised = TRUE]
      ELSE IF Len(full.path) = 0 THEN none
      ELSE IF StatusOf(d, full.path) = "absent" THEN none
      ELSE IF StatusOf(d, full.path) = "debug"
      THEN [none EXCEPT !.primary = full.path, !.image = full.path]
      ELSE LET r == TryPaths(SearchPaths(full.path, img), 1, <<>>, d)
           IN  [raised |-> FALSE, primary |-> full.path, tried |-> r.tried,
                image |-> r.image]

BApp == <<"/","b","/","a","p","p">>

XApp == <<"/","x","/","a","p","p">>

RelApp == <<".","/","a","p","p">>

RawApp == <<"a","p","p">>

LinkName == <<"a",".","d","b","g">>

ByBuildId == <<"/","u","s","r","/","l","i","b","/","d","e","b","u","g","/",".","b","u","i","l","d","-","i","d","/","0","a","/","b","c",".","d","e","b","u","g">>

BesideImage == <<"/","b","/","a",".","d","b","g">>

InDotDebug == <<"/","b","/",".","d","e","b","u","g","/","a",".","d","b","g">>

InDebugRoot == <<"/","u","s","r","/","l","i","b","/","d","e","b","u","g","/","b","/","a",".","d","b","g">>

Candidates == {ByBuildId, BesideImage, InDotDebug, InDebugRoot}

\* The file system: the module under /b, perhaps a file of its name in /x,
\* and the four places a separate debug file may be.
Disks ==
  {d \in [{BApp, XApp} \cup Candidates -> {"absent", "plain", "debug"}] :
     d[XApp] # "plain"}

AbiTag == [n_type |-> 1, desc |-> <<0>>]

BuildIdNote == [n_type |-> NT_GNU_BUILD_ID, desc |-> <<10, 188>>]

EmptyBuildIdNote == [n_type |-> NT_GNU_BUILD_ID, desc |-> <<>>]

Images ==
  [notes : {<<>>, <<BuildIdNote>>, <<AbiTag, BuildIdNote>>,
            <<EmptyBuildIdNote>>},
   link_valid : BOOLEAN, link_name : {LinkName}]

InitLocate ==
  /\ IndexEmpty
  /\ WalkIdle
  /\ InlineIdle
  /\ MapsIdle
  /\ disk \in Disks
  /\ image \in Images
  /\ loc_filename \in {BApp, RelApp, RawApp}
  /\ loc_primary = <<>>
  /\ loc_tried = <<>>
  /\ loc_image = <<>>
  /\ loc_state = "idle"
  /\ BuildIdle

\* A call of locate_debug_executable that returns.
Locate ==
  /\ loc_state = "idle"
  /\ LET r == locate_debug_executable(loc_filename, disk, image)
     IN  /\ ~r.raised
         /\ loc_primary' = r.primary
         /\ loc_tried' = r.tried
         /\ loc_image' = r.image
  /\ loc_state' = "returned"
  /\ UNCHANGED <<indexVars, walkVars, inlineVars, mapsVars, disk, image,
                 loc_filename, buildVars>>

\* A call of locate_debug_executable that canonical ends with an exception.
LocateRaises ==
  /\ loc_state = "idle"
  /\ locate_debug_executable(loc_filename, disk, image).raised
  /\ loc_state' = "raised"
  /\ UNCHANGED <<indexVars, walkVars, inlineVars, mapsVars, disk, image,
                 loc_filename, loc_primary, loc_tried, loc_image,
                 buildVars>>

NextLocate == Locate \/ LocateRaises

SpecLocate == InitLocate /\ [][NextLocate]_vars

----------------------------------------------------------------------------
(* Claims about locate_debug_executable *)

HasBuildId == image.notes \in {<<BuildIdNote>>, <<AbiTag, BuildIdNote>>}

\* The fallback candidates of /b/app in the order of the claim.
ExpectedCandidates ==
  (IF HasBuildId THEN <<ByBuildId>> ELSE <<>>)
  \o (IF image.link_valid THEN <<BesideImage, InDotDebug, InDebugRoot>>
      ELSE <<>>)

GoodCandidates ==
  {i \in 1..Len(ExpectedCandidates) : disk[ExpectedCandidates[i]] = "debug"}

FirstGood == CHOOSE i \in GoodCandidates : \A j \in GoodCandidates : i <= j

C8_WitnessNone ==
  /\ loc_state = "returned"
  /\ loc_primary = BApp
  /\ disk[BApp] = "plain"
  /\ Len(ExpectedCandidates) = 4
  /\ GoodCandidates = {}
  /\ loc_image = <<>>

----------------------------------------------------------------------------
(* process_file and build *)

\* The loop of process_file over a line table, from row i.
RECURSIVE WalkTable(_, _, _, _, _)
WalkTable(st, table_rows, i, sc, load) ==
  IF i > Len(table_rows) THEN st
  ELSE WalkTable(LineStep(st, table_rows[i], sc, load), table_rows, i + 1,
                 sc, load)

\* process_inlines over the children of a node, from child i.
RECURSIVE ProcessChildren(_, _, _, _, _, _)
ProcessChildren(idx, children, i, table, sc, load) ==
  IF i > Len(children) THEN idx
  ELSE ProcessChildren(
         ProcessDie(children[i], table, sc, load, idx, 0, 0).idx,
         children, i + 1, table, sc, load)

\* The body of the loop of process_file over the compilation units.
ProcessUnit(idx, unit, sc, load) ==
  LET st == [idx |-> idx, emitted |-> NoCall, prev_filename |-> <<>>,
             prev_line |-> 0, prev_address |-> 0]
      walked == WalkTable(st, unit.rows, 1, sc, load)
      table == [valid |-> TRUE, files |-> unit.files]
      root == ProcessDie(unit.root, table, sc, load, walked.idx, 0, 0)
  IN  ProcessChildren(root.idx, unit.children, 1, table, sc, load)

RECURSIVE ProcessUnits(_, _, _, _, _)
ProcessUnits(idx, units, i, sc, load) ==
  IF i > Len(units) THEN idx
  ELSE ProcessUnits(ProcessUnit(idx, units[i], sc, load), units, i + 1,
                    sc, load)

\* The sections of a module image that has neither notes nor a debug link.
NoSections == [notes |-> <<>>, link_valid |-> FALSE, link_name |-> <<>>]

\* process_file: [outcome, idx]. The outcome is "true" or "false" for a
\* return, or the exception that leaves the function; errs gives, by module,
\* what loading its debug information raises.
process_file(idx, name, load, sc, d, errs, units) ==
  LET f == locate_debug_executable(name, d, NoSections)
  IN  IF f.raised THEN [outcome |-> "system_error", idx |-> idx]
      ELSE IF f.image = <<>> THEN [outcome |-> "false", idx |-> idx]
      ELSE IF errs[name] # "none" THEN [outcome |-> errs[name], idx |-> idx]
      ELSE [outcome |-> "true",
            idx |-> ProcessUnits(idx, units, 1, sc, load)]

\* The debug information of a module: one compilation unit of two rows, with
\* one subroutine inlined from the second file into the first.
ModuleUnits ==
  << [rows |-> << [address |-> 1, file |-> TableFiles[1], line |-> 1,
                   end_sequence |-> FALSE],
                  [address |-> 2, file |-> TableFiles[1], line |-> 1,
                   end_sequence |-> TRUE] >>,
      files |-> TableFiles,
      root |-> Die("compile_unit", <<>>, NoDie, NoDie),
      children |->
        << Die("inlined_subroutine",
               ("decl_file" :> 2) @@ ("call_file" :> 1) @@ ("call_line" :> 7)
                 @@ ("low_pc" :> [type |-> "address", v |-> 2])
                 @@ ("high_pc" :> [type |-> "address", v |-> 3]),
               NoDie, NoDie) >>] >>

ModulePaths == {BinApp, LibC, LibM}

\* The mapping tables of build: every line a candidate, line i mapped at
\* i * LoadBase.
BuildTables ==
  UNION { [1..n -> [perms_x : {TRUE}, offset : {0}, path : ModulePaths]]
            : n \in 0..MaxMaps }

BuildBases(t) ==
  [i \in 1..Len(t) |->
     [base |-> i * LoadBase, perms_x |-> t[i].perms_x,
      offset |-> t[i].offset, path |-> t[i].path]]

InitBuild ==
  /\ IndexEmpty
  /\ scope \in Scopes
  /\ load_address = 0
  /\ rows = <<>>
  /\ emit_at = <<>>
  /\ prev_filename = <<>>
  /\ prev_line = 0
  /\ prev_address = 0
  /\ InlineIdle
  /\ \E t \in BuildTables : maps_table = BuildBases(t)
  /\ fopen_ok = TRUE
  /\ include_libs \in BOOLEAN
  /\ loaded = <<>>
  /\ glf_state = "idle"
  /\ disk \in [ModulePaths -> {"absent", "plain", "debug"}]
  /\ image = NoSections
  /\ loc_filename = <<>>
  /\ loc_primary = <<>>
  /\ loc_tried = <<>>
  /\ loc_image = <<>>
  /\ loc_state = "idle"
  /\ load_error \in [ModulePaths -> {"none", "system_error", "format_error"}]
  /\ \A p \in ModulePaths : load_error[p] # "none" => disk[p] = "debug"
  /\ build_state = "idle"
  /\ build_pos = 0
  /\ processed = <<>>

\* build calls get_loaded_files and enters its loop.
BuildEnumerate ==
  /\ build_state = "idle"
  /\ loaded' = ScanMaps(maps_table, 1, TRUE, <<>>, include_libs)
  /\ glf_state' = "returned"
  /\ build_state' = "running"
  /\ build_pos' = 1
  /\ UNCHANGED <<indexVars, walkVars, inlineVars, maps_table, fopen_ok,
                 include_libs, locateVars, load_error, processed>>

\* The outcome of process_file for the module the loop is at.
BuildStep ==
  process_file(TheIndex, loaded[build_pos].path, loaded[build_pos].base,
               scope, disk, load_error, ModuleUnits)

\* One iteration of build's loop in which process_file returns.
BuildModuleReturns ==
  /\ build_state = "running"
  /\ build_pos <= Len(loaded)
  /\ BuildStep.outcome \in {"true", "false"}
  /\ ranges' = BuildStep.idx.ranges
  /\ files' = BuildStep.idx.files
  /\ processed' = Append(processed, loaded[build_pos].path)
  /\ build_pos' = build_pos + 1
  /\ UNCHANGED <<calls, walkVars, inlineVars, mapsVars, locateVars,
                 load_error, build_state>>

\* One iteration in which process_file raises a system_error: the catch
\* clause of build takes it and the loop goes on.
BuildModuleCaught ==
  /\ build_state = "running"
  /\ build_pos <= Len(loaded)
  /\ BuildStep.outcome = "system_error"
  /\ processed' = Append(processed, loaded[build_pos].path)
  /\ build_pos' = build_pos + 1
  /\ UNCHANGED <<indexVars, walkVars, inlineVars, mapsVars, locateVars,
                 load_error, build_state>>

\* One iteration in which process_file raises an exception that is not a
\* system_error: no clause takes it, and it leaves build.
BuildModuleEscapes ==
  /\ build_state = "running"
  /\ build_pos <= Len(loaded)
  /\ BuildStep.outcome \notin {"true", "false", "system_error"}
  /\ processed' = Append(processed, loaded[build_pos].path)
  /\ build_state' = "escaped"
  /\ UNCHANGED <<indexVars, walkVars, inlineVars, mapsVars, locateVars,
                 load_error, build_pos>>

\* The loop has passed the last module and build returns.
BuildReturns ==
  /\ build_state = "running"
  /\ build_pos > Len(loaded)
  /\ build_state' = "done"
  /\ UNCHANGED <<indexVars, walkVars, inlineVars, mapsVars, locateVars,
                 load_error, build_pos, processed>>

NextBuild ==
  \/ BuildEnumerate
  \/ BuildModuleReturns
  \/ BuildModuleCaught
  \/ BuildModuleEscapes
  \/ BuildReturns

SpecBuild == InitBuild /\ [][NextBuild]_vars

----------------------------------------------------------------------------
(* Claims about build *)

\* C3: a failure while processing one module never leaves build and never
\* keeps the modules after it from being handed to process_file.
C3_ModuleFailureIsolated ==
  /\ build_state # "escaped"
  /\ build_state = "done" =>
       processed = [i \in 1..Len(loaded) |-> loaded[i].path]

\* build returned after every module was handed to process_file, one of
\* them raised a system_error, and a module after it has entries.
C3_CaughtWitness ==
  /\ build_state = "done"
  /\ Len(loaded) = 2
  /\ load_error[loaded[1].path] = "system_error"
  /\ ranges # <<>>

====
